---- MODULE Spec2Model ----
(***************************************************************************)
(* A model of the concurrency toolkit: the two-lock LockedQueue, the       *)
(* single-lock SimpleLockedQueue / ThreadSafeQueue, the WorkStealingQueue  *)
(* and the work-stealing ThreadPool.  Every thread is a small program      *)
(* counter machine; an operation's steps are the places where the code     *)
(* acquires or releases a mutex, touches shared memory or parks on a       *)
(* condition variable.                                                     *)
(***************************************************************************)
EXTENDS Integers, Sequences, FiniteSets, Bags, TLC

\* ------------------------------------------------------------------ bounds
\* Number of Push calls each producer of the queue harness performs.
MaxPush == 2
\* Number of pop-side calls each consumer of the queue harness performs.
MaxPop == 2

\* Number of calls the owner of the deque makes in the deque harness, and
\* number of TrySteal calls of the thief.
MaxOwnerOps == 6
MaxSteals == 2

\* --------------------------------------------------------------- constants
\* nullptr for Node* / std::unique_ptr<Node>.
NullNode == 0
\* The empty std::shared_ptr<T> (and the content of an unwritten T).
NoValue == -1
\* An unlocked std::mutex has no owner.
NoThread == "none"

Producers == {"p1", "p2"}
Consumers == {"c1", "c2"}
\* The pool's worker threads by index, and the thread that owns the pool.
WorkerThread == <<"w0", "w1">>
NumWorkers == Len(WorkerThread)
Workers == {WorkerThread[k] : k \in 1..NumWorkers}
Owner == "main"
Threads == Producers \cup Consumers \cup Workers \cup {Owner}
\* local_task_queues_: one deque per worker, indexed from 0.
DequeIds == 0..(NumWorkers - 1)
\* local_task_queue_ of a thread that is no worker (a null pointer).
NoQueue == -1

\* The i-th value pushed by producer t: the loop index of the test's
\* producer, made distinct between the producers.
Value(t, i) == IF t = "p1" THEN i ELSE MaxPush + i

\* Number of tasks submitted to the pool, by the owner and by running tasks.
MaxTasks == 3
\* Number of tasks submitted in the runs checked for liveness.
MaxLiveTasks == 2
TaskIds == 1..MaxTasks

\* Nodes the LockedQueue can allocate: the dummy plus one per Push.
MaxNodes ==
  IF Cardinality(Producers) * MaxPush > MaxTasks
    THEN Cardinality(Producers) * MaxPush + 1
    ELSE MaxTasks + 1
NodeIds == 0..MaxNodes

VARIABLES
  obj,       \* the queue object under test (the dynamic type behind the interface)
  head_, tail_, data_, next_, nalloc, head_mu_, tail_mu_, cv_,   \* LockedQueue
  queue_, sq_mu_, sq_cv_,                                        \* SimpleLockedQueue
  q_, mu_,                                                       \* WorkStealingQueue
  done_, local_task_queue_, my_index_,                           \* ThreadPool
  ntask, runs, future, submitter,                                \* tasks
  th,        \* per thread: program counter, return address, arguments, locals
  pushed, popped                                                 \* history

lqVars == <<head_, tail_, data_, next_, nalloc, head_mu_, tail_mu_, cv_>>
sqVars == <<queue_, sq_mu_, sq_cv_>>
wsVars == <<q_, mu_>>
plVars == <<done_, local_task_queue_, my_index_, ntask, runs, future, submitter>>
hiVars == <<pushed, popped>>
vars == <<obj, lqVars, sqVars, wsVars, plVars, th, hiVars>>

\* ------------------------------------------------------------------ helpers
Range(s) == {s[k] : k \in DOMAIN s}
BagOfSeq(s) == [v \in Range(s) |-> Cardinality({k \in DOMAIN s : s[k] = v})]
IsPrefix(s, u) == Len(s) <= Len(u) /\ \A k \in 1..Len(s) : s[k] = u[k]

\* The frame of a thread that runs no call.
Frame0 ==
  [pc |-> "client", ret |-> "client", op |-> "none", arg |-> NoValue,
   value |-> NoValue, res |-> NoValue, ok |-> FALSE,
   tl |-> NullNode, p |-> NullNode, cnt |-> 0, i |-> 0, dq |-> 0,
   src |-> "none", tried |-> <<>>, rd |-> FALSE, late |-> 0,
   exc |-> FALSE]

ThInit == th = [t \in Threads |-> Frame0]

\* Frame fields that only record history: cnt counts the calls a client has
\* made (for a worker: the tasks invoked in the current RunPendingTask), src
\* is the queue the worker's task came from and tried the sources the
\* current RunPendingTask has tried so far, rd the value of done_ the worker
\* read at its last loop test and late the number of tasks the worker has
\* invoked after done_ was set.

\* The values a shared_ptr overload / a T* overload hands to the caller.
IsByValue(m) == m \in {"TryPopV", "WaitAndPopV"}

\* A thread moves to label l / returns from the call it is in.  The frame
\* keeps op, the method called last, until the next call.
Goto(t, l) == [th EXCEPT ![t].pc = l]
Return(t) == [th EXCEPT ![t].pc = th[t].ret]

\* ============================================================ LockedQueue
\* The values held by the chain of nodes from n up to (not including) tail_.
RECURSIVE ChainFrom(_, _)
ChainFrom(n, fuel) ==
  IF n = tail_ \/ n = NullNode \/ fuel = 0 THEN <<>>
  ELSE <<data_[n]>> \o ChainFrom(next_[n], fuel - 1)

LQContents == ChainFrom(head_, MaxNodes)

\* The nodes owned through head_: head_ and the successors reached by next_.
RECURSIVE NodesFrom(_, _)
NodesFrom(n, fuel) ==
  IF n = NullNode \/ fuel = 0 THEN <<>>
  ELSE <<n>> \o NodesFrom(next_[n], fuel - 1)

LQNodes == NodesFrom(head_, MaxNodes + 1)

\* LockedQueue(): one dummy node, head_ and tail_ both point to it.
LQInit ==
  /\ nalloc = 1
  /\ head_ = 1
  /\ tail_ = 1
  /\ data_ = [n \in NodeIds |-> NoValue]
  /\ next_ = [n \in NodeIds |-> NullNode]
  /\ head_mu_ = NoThread
  /\ tail_mu_ = NoThread
  /\ cv_ = {}

\* Mutant of Push: one lock for both ends, Push takes head_mu_ as well.
Push_BothLocks(t) ==
  /\ th[t].pc = "Push"
  /\ tail_mu_ = NoThread
  /\ head_mu_ = NoThread
  /\ tail_mu_' = t
  /\ head_mu_' = t
  /\ nalloc' = nalloc + 1
  /\ th' = [th EXCEPT ![t].pc = "Push_link", ![t].p = nalloc + 1]
  /\ UNCHANGED <<head_, tail_, data_, next_, cv_>>
  /\ UNCHANGED <<obj, sqVars, wsVars, plVars, hiVars>>

\* Push: make_shared, new Node, then lock tail_mu_.
Push(t) ==
  /\ th[t].pc = "Push"
  /\ tail_mu_ = NoThread
  /\ tail_mu_' = t
  /\ nalloc' = nalloc + 1
  /\ th' = [th EXCEPT ![t].pc = "Push_link", ![t].p = nalloc + 1]
  /\ UNCHANGED <<head_, tail_, data_, next_, head_mu_, cv_>>
  /\ UNCHANGED <<obj, sqVars, wsVars, plVars, hiVars>>

\* Mutant of Push_link: the payload is stored in the new node, not in the
\* current tail node.
Push_link_NewNode(t) ==
  /\ th[t].pc = "Push_link"
  /\ data_' = [data_ EXCEPT ![th[t].p] = th[t].arg]
  /\ next_' = [next_ EXCEPT ![tail_] = th[t].p]
  /\ th' = Goto(t, "Push_tail")
  /\ UNCHANGED <<head_, tail_, nalloc, head_mu_, tail_mu_, cv_>>
  /\ UNCHANGED <<obj, sqVars, wsVars, plVars, hiVars>>

\* tail_->data_ = data; tail_->next_ = std::move(p)
Push_link(t) ==
  /\ th[t].pc = "Push_link"
  /\ data_' = [data_ EXCEPT ![tail_] = th[t].arg]
  /\ next_' = [next_ EXCEPT ![tail_] = th[t].p]
  /\ th' = Goto(t, "Push_tail")
  /\ UNCHANGED <<head_, tail_, nalloc, head_mu_, tail_mu_, cv_>>
  /\ UNCHANGED <<obj, sqVars, wsVars, plVars, hiVars>>

\* Mutant of Push_tail: tail_ is left on the old dummy node.
Push_tail_NoAdvance(t) ==
  /\ th[t].pc = "Push_tail"
  /\ tail_mu_' = NoThread
  /\ pushed' = Append(pushed, th[t].arg)
  /\ th' = [th EXCEPT ![t].pc = "Push_notify", ![t].p = NullNode]
  /\ UNCHANGED <<head_, tail_, data_, next_, nalloc, head_mu_, cv_>>
  /\ UNCHANGED <<obj, sqVars, wsVars, plVars, popped>>

\* tail_ = new_tail; the lock_guard releases tail_mu_ at the end of the block.
Push_tail(t) ==
  /\ th[t].pc = "Push_tail"
  /\ tail_' = th[t].p
  /\ tail_mu_' = NoThread
  /\ pushed' = Append(pushed, th[t].arg)
  /\ th' = [th EXCEPT ![t].pc = "Push_notify", ![t].p = NullNode]
  /\ UNCHANGED <<head_, data_, next_, nalloc, head_mu_, cv_>>
  /\ UNCHANGED <<obj, sqVars, wsVars, plVars, popped>>

\* cv_.notify_one(): wakes one parked waiter if there is one, which then has
\* to reacquire head_mu_.  With no waiter parked the notification is lost.
Push_notify(t) ==
  /\ th[t].pc = "Push_notify"
  /\ IF cv_ = {}
       THEN /\ th' = Return(t)
            /\ cv_' = cv_
       ELSE \E w \in cv_ :
              /\ cv_' = cv_ \ {w}
              /\ th' = [Return(t) EXCEPT ![w].pc = "WaitForData_wake"]
  /\ UNCHANGED <<head_, tail_, data_, next_, nalloc, head_mu_, tail_mu_>>
  /\ UNCHANGED <<obj, sqVars, wsVars, plVars, hiVars>>

\* Where GetTail returns to, by the public method the thread is in.
AfterGetTail(t) ==
  CASE th[t].op = "Empty" -> "Empty_ret"
    [] th[t].op \in {"TryPop", "TryPopV"} -> "TryPopHead_cmp"
    [] OTHER -> "WaitForData_pred"

\* GetTail: lock tail_mu_ (the caller holds head_mu_).
GetTail(t) ==
  /\ th[t].pc = "GetTail"
  /\ tail_mu_ = NoThread
  /\ tail_mu_' = t
  /\ th' = Goto(t, "GetTail_ret")
  /\ UNCHANGED <<head_, tail_, data_, next_, nalloc, head_mu_, cv_>>
  /\ UNCHANGED <<obj, sqVars, wsVars, plVars, hiVars>>

\* return tail_; the lock_guard releases tail_mu_.
GetTail_ret(t) ==
  /\ th[t].pc = "GetTail_ret"
  /\ tail_mu_' = NoThread
  /\ th' = [th EXCEPT ![t].pc = AfterGetTail(t), ![t].tl = tail_]
  /\ UNCHANGED <<head_, tail_, data_, next_, nalloc, head_mu_, cv_>>
  /\ UNCHANGED <<obj, sqVars, wsVars, plVars, hiVars>>

\* Empty: lock head_mu_, then GetTail.
Empty(t) ==
  /\ th[t].pc = "Empty"
  /\ head_mu_ = NoThread
  /\ head_mu_' = t
  /\ th' = Goto(t, "GetTail")
  /\ UNCHANGED <<head_, tail_, data_, next_, nalloc, tail_mu_, cv_>>
  /\ UNCHANGED <<obj, sqVars, wsVars, plVars, hiVars>>

\* return head_.get() == GetTail(); the lock_guard releases head_mu_.
Empty_ret(t) ==
  /\ th[t].pc = "Empty_ret"
  /\ head_mu_' = NoThread
  /\ th' = [th EXCEPT ![t].pc = th[t].ret,
                      ![t].ok = (head_ = th[t].tl), ![t].tl = NullNode]
  /\ UNCHANGED <<head_, tail_, data_, next_, nalloc, tail_mu_, cv_>>
  /\ UNCHANGED <<obj, sqVars, wsVars, plVars, hiVars>>

\* Mutant of PopHead: head_ is not advanced to the successor.
PopHead_NoAdvance(h) == h

\* PopHead: old_head = std::move(head_); head_ = std::move(old_head->next_).
\* The new head_, given the old one.
PopHead(h) == next_[h]

\* The payload of the node a pop detaches: old_head->data_ / *head_->data_.
PopData(h) == data_[h]

\* Mutant of FrameNone: the T* overload moves *head_->data_ into *value
\* before it tests for emptiness.
FrameNone_Clobber(t) ==
  [th[t] EXCEPT !.pc = th[t].ret, !.tl = NullNode,
                !.value = IF IsByValue(th[t].op) THEN data_[head_] ELSE @,
                !.res = IF IsByValue(th[t].op) THEN @ ELSE NoValue,
                !.ok = IF th[t].op = "TryPopV" THEN FALSE ELSE @]

\* The frame of thread t returning from a pop that found nothing: the
\* shared_ptr overload returns an empty pointer, the T* overload false.
FrameNone(t) ==
  [th[t] EXCEPT !.pc = th[t].ret, !.tl = NullNode,
                !.res = IF IsByValue(th[t].op) THEN @ ELSE NoValue,
                !.ok = IF th[t].op = "TryPopV" THEN FALSE ELSE @]

\* The frame of thread t returning from a pop that took x: the T* overload
\* writes *value and returns true, the shared_ptr overload returns x.
FrameSome(t, x) ==
  [th[t] EXCEPT !.pc = th[t].ret, !.tl = NullNode,
                !.value = IF IsByValue(th[t].op) THEN x ELSE @,
                !.res = IF IsByValue(th[t].op) THEN @ ELSE x,
                !.ok = IF th[t].op = "TryPopV" THEN TRUE ELSE @]

\* TryPopHead: lock head_mu_, then GetTail.
TryPopHead(t) ==
  /\ th[t].pc = "TryPopHead"
  /\ head_mu_ = NoThread
  /\ head_mu_' = t
  /\ th' = Goto(t, "GetTail")
  /\ UNCHANGED <<head_, tail_, data_, next_, nalloc, tail_mu_, cv_>>
  /\ UNCHANGED <<obj, sqVars, wsVars, plVars, hiVars>>

\* Mutant of TryPopHead_cmp: PopHead runs without the comparison of head_
\* with the tail GetTail returned.
TryPopHead_cmp_NoCheck(t) ==
  /\ th[t].pc = "TryPopHead_cmp"
  /\ th' = [th EXCEPT ![t] = FrameSome(t, PopData(head_))]
  /\ head_' = PopHead(head_)
  /\ popped' = Append(popped, PopData(head_))
  /\ head_mu_' = NoThread
  /\ UNCHANGED <<tail_, data_, next_, nalloc, tail_mu_, cv_>>
  /\ UNCHANGED <<obj, sqVars, wsVars, plVars, pushed>>

\* if (head_.get() == GetTail()) return null; else (move the value,) PopHead.
\* Either way the lock_guard releases head_mu_ and TryPop returns.
TryPopHead_cmp(t) ==
  /\ th[t].pc = "TryPopHead_cmp"
  /\ IF head_ = th[t].tl
       THEN /\ th' = [th EXCEPT ![t] = FrameNone(t)]
            /\ UNCHANGED <<head_, popped>>
       ELSE /\ th' = [th EXCEPT ![t] = FrameSome(t, PopData(head_))]
            /\ head_' = PopHead(head_)
            /\ popped' = Append(popped, PopData(head_))
  /\ head_mu_' = NoThread
  /\ UNCHANGED <<tail_, data_, next_, nalloc, tail_mu_, cv_>>
  /\ UNCHANGED <<obj, sqVars, wsVars, plVars, pushed>>

\* WaitForData: lock head_mu_, then evaluate the predicate (GetTail).
WaitForData(t) ==
  /\ th[t].pc = "WaitForData"
  /\ head_mu_ = NoThread
  /\ head_mu_' = t
  /\ th' = Goto(t, "GetTail")
  /\ UNCHANGED <<head_, tail_, data_, next_, nalloc, tail_mu_, cv_>>
  /\ UNCHANGED <<obj, sqVars, wsVars, plVars, hiVars>>

\* cv_.wait(head_lock, pred) once the predicate has been evaluated.  True:
\* the caller (WaitPopHead) moves the value, does PopHead and releases
\* head_mu_.  False: the thread releases head_mu_ and parks on cv_.
WaitForData_pred(t) ==
  /\ th[t].pc = "WaitForData_pred"
  /\ IF head_ # th[t].tl
       THEN /\ th' = [th EXCEPT ![t] = FrameSome(t, PopData(head_))]
            /\ head_' = PopHead(head_)
            /\ popped' = Append(popped, PopData(head_))
            /\ cv_' = cv_
       ELSE /\ cv_' = cv_ \cup {t}
            /\ th' = [th EXCEPT ![t].pc = "cv_wait", ![t].tl = NullNode]
            /\ UNCHANGED <<head_, popped>>
  /\ head_mu_' = NoThread
  /\ UNCHANGED <<tail_, data_, next_, nalloc, tail_mu_>>
  /\ UNCHANGED <<obj, sqVars, wsVars, plVars, pushed>>

\* A woken waiter reacquires head_mu_ and evaluates the predicate again.
WaitForData_wake(t) ==
  /\ th[t].pc = "WaitForData_wake"
  /\ head_mu_ = NoThread
  /\ head_mu_' = t
  /\ th' = Goto(t, "GetTail")
  /\ UNCHANGED <<head_, tail_, data_, next_, nalloc, tail_mu_, cv_>>
  /\ UNCHANGED <<obj, sqVars, wsVars, plVars, hiVars>>

\* std::condition_variable::wait may return without any notification.
SpuriousWakeup(t) ==
  /\ th[t].pc = "cv_wait"
  /\ t \in cv_
  /\ cv_' = cv_ \ {t}
  /\ th' = Goto(t, "WaitForData_wake")
  /\ UNCHANGED <<head_, tail_, data_, next_, nalloc, head_mu_, tail_mu_>>
  /\ UNCHANGED <<obj, sqVars, wsVars, plVars, hiVars>>

\* ====================================================== SimpleLockedQueue
\* (ThreadSafeQueue of simple_thread_safe_queue.h is the same code.)
SQInit ==
  /\ queue_ = <<>>
  /\ sq_mu_ = NoThread
  /\ sq_cv_ = {}

\* Push: make_shared, then lock mu_.
SQ_Push(t) ==
  /\ th[t].pc = "SQ_Push"
  /\ sq_mu_ = NoThread
  /\ sq_mu_' = t
  /\ th' = Goto(t, "SQ_Push_body")
  /\ UNCHANGED <<queue_, sq_cv_>>
  /\ UNCHANGED <<obj, lqVars, wsVars, plVars, hiVars>>

\* queue_.push(data); cv_.notify_one(); the lock_guard releases mu_.
SQ_Push_body(t) ==
  /\ th[t].pc = "SQ_Push_body"
  /\ queue_' = Append(queue_, th[t].arg)
  /\ pushed' = Append(pushed, th[t].arg)
  /\ IF sq_cv_ = {}
       THEN /\ th' = Return(t)
            /\ sq_cv_' = sq_cv_
       ELSE \E w \in sq_cv_ :
              /\ sq_cv_' = sq_cv_ \ {w}
              /\ th' = [Return(t) EXCEPT ![w].pc = "SQ_WaitAndPop_wake"]
  /\ sq_mu_' = NoThread
  /\ UNCHANGED <<obj, lqVars, wsVars, plVars, popped>>

\* Empty: lock mu_.
SQ_Empty(t) ==
  /\ th[t].pc = "SQ_Empty"
  /\ sq_mu_ = NoThread
  /\ sq_mu_' = t
  /\ th' = Goto(t, "SQ_Empty_ret")
  /\ UNCHANGED <<queue_, sq_cv_>>
  /\ UNCHANGED <<obj, lqVars, wsVars, plVars, hiVars>>

\* return queue_.empty();
SQ_Empty_ret(t) ==
  /\ th[t].pc = "SQ_Empty_ret"
  /\ sq_mu_' = NoThread
  /\ th' = [th EXCEPT ![t].pc = th[t].ret, ![t].ok = (queue_ = <<>>)]
  /\ UNCHANGED <<queue_, sq_cv_>>
  /\ UNCHANGED <<obj, lqVars, wsVars, plVars, hiVars>>

\* TryPop (both overloads): lock mu_.
SQ_TryPop(t) ==
  /\ th[t].pc = "SQ_TryPop"
  /\ sq_mu_ = NoThread
  /\ sq_mu_' = t
  /\ th' = Goto(t, "SQ_TryPop_body")
  /\ UNCHANGED <<queue_, sq_cv_>>
  /\ UNCHANGED <<obj, lqVars, wsVars, plVars, hiVars>>

\* queue_.front() / queue_.pop(): the item handed out and what is left.
SQFront(q) == Head(q)
SQPop(q) == Tail(q)

\* if (queue_.empty()) return false / null; else take the front and pop it.
SQ_TryPop_body(t) ==
  /\ th[t].pc = "SQ_TryPop_body"
  /\ IF queue_ = <<>>
       THEN /\ th' = [th EXCEPT ![t] = FrameNone(t)]
            /\ UNCHANGED <<queue_, popped>>
       ELSE /\ th' = [th EXCEPT ![t] = FrameSome(t, SQFront(queue_))]
            /\ queue_' = SQPop(queue_)
            /\ popped' = Append(popped, SQFront(queue_))
  /\ sq_mu_' = NoThread
  /\ UNCHANGED <<sq_cv_>>
  /\ UNCHANGED <<obj, lqVars, wsVars, plVars, pushed>>

\* WaitAndPop (both overloads): lock mu_.
SQ_WaitAndPop(t) ==
  /\ th[t].pc = "SQ_WaitAndPop"
  /\ sq_mu_ = NoThread
  /\ sq_mu_' = t
  /\ th' = Goto(t, "SQ_WaitAndPop_pred")
  /\ UNCHANGED <<queue_, sq_cv_>>
  /\ UNCHANGED <<obj, lqVars, wsVars, plVars, hiVars>>

\* Mutant of SQ_WaitAndPop_pred: the shared_ptr overload allocates the result
\* after the wait and before the pop, and the allocation can fail.
SQ_WaitAndPop_pred_BadAlloc(t) ==
  /\ th[t].pc = "SQ_WaitAndPop_pred"
  /\ \/ /\ queue_ # <<>>
        /\ th' = [th EXCEPT ![t] = FrameSome(t, SQFront(queue_))]
        /\ queue_' = SQPop(queue_)
        /\ popped' = Append(popped, SQFront(queue_))
        /\ sq_cv_' = sq_cv_
     \/ /\ queue_ # <<>>
        /\ th[t].op = "WaitAndPop"
        /\ th' = [th EXCEPT ![t].pc = th[t].ret, ![t].exc = TRUE]
        /\ UNCHANGED <<queue_, popped, sq_cv_>>
     \/ /\ queue_ = <<>>
        /\ sq_cv_' = sq_cv_ \cup {t}
        /\ th' = Goto(t, "sq_cv_wait")
        /\ UNCHANGED <<queue_, popped>>
  /\ sq_mu_' = NoThread
  /\ UNCHANGED <<obj, lqVars, wsVars, plVars, pushed>>

\* cv_.wait(ul, pred): predicate true, take the front, pop it and return
\* (releasing mu_); predicate false, release mu_ and park on cv_.
SQ_WaitAndPop_pred(t) ==
  /\ th[t].pc = "SQ_WaitAndPop_pred"
  /\ IF queue_ # <<>>
       THEN /\ th' = [th EXCEPT ![t] = FrameSome(t, SQFront(queue_))]
            /\ queue_' = SQPop(queue_)
            /\ popped' = Append(popped, SQFront(queue_))
            /\ sq_cv_' = sq_cv_
       ELSE /\ sq_cv_' = sq_cv_ \cup {t}
            /\ th' = Goto(t, "sq_cv_wait")
            /\ UNCHANGED <<queue_, popped>>
  /\ sq_mu_' = NoThread
  /\ UNCHANGED <<obj, lqVars, wsVars, plVars, pushed>>

\* A woken waiter reacquires mu_ and evaluates the predicate again.
SQ_WaitAndPop_wake(t) ==
  /\ th[t].pc = "SQ_WaitAndPop_wake"
  /\ sq_mu_ = NoThread
  /\ sq_mu_' = t
  /\ th' = Goto(t, "SQ_WaitAndPop_pred")
  /\ UNCHANGED <<queue_, sq_cv_>>
  /\ UNCHANGED <<obj, lqVars, wsVars, plVars, hiVars>>

\* std::condition_variable::wait may return without any notification.
SQ_SpuriousWakeup(t) ==
  /\ th[t].pc = "sq_cv_wait"
  /\ t \in sq_cv_
  /\ sq_cv_' = sq_cv_ \ {t}
  /\ th' = Goto(t, "SQ_WaitAndPop_wake")
  /\ UNCHANGED <<queue_, sq_mu_>>
  /\ UNCHANGED <<obj, lqVars, wsVars, plVars, hiVars>>

\* ----------------------------------- SimpleLockedQueue1 / ThreadSafeQueue1
\* The value-storing queues differ from the ones above in the shared_ptr
\* overloads, which allocate the result between the test and the pop:
\*   auto value = std::make_shared<T>(std::move(queue_.front())); queue_.pop();

\* Mutant of SQ1_WaitAndPop_throw: the exception is caught and notify_one is
\* called once more before it is rethrown.
SQ1_WaitAndPop_throw_Renotify(t) ==
  /\ obj = "SimpleLockedQueue1"
  /\ th[t].pc = "SQ_WaitAndPop_pred"
  /\ th[t].op = "WaitAndPop"
  /\ queue_ # <<>>
  /\ IF sq_cv_ = {}
       THEN /\ th' = [th EXCEPT ![t].pc = th[t].ret, ![t].exc = TRUE]
            /\ sq_cv_' = sq_cv_
       ELSE \E w \in sq_cv_ :
              /\ sq_cv_' = sq_cv_ \ {w}
              /\ th' = [th EXCEPT ![t].pc = th[t].ret, ![t].exc = TRUE,
                                  ![w].pc = "SQ_WaitAndPop_wake"]
  /\ sq_mu_' = NoThread
  /\ UNCHANGED <<queue_>>
  /\ UNCHANGED <<obj, lqVars, wsVars, plVars, hiVars>>

\* WaitAndPop() of the value-storing queue, predicate true, std::make_shared
\* throws std::bad_alloc: the unique_lock releases mu_ and the exception
\* leaves WaitAndPop; queue_.pop() and any notify are not reached.
SQ1_WaitAndPop_throw(t) ==
  /\ obj = "SimpleLockedQueue1"
  /\ th[t].pc = "SQ_WaitAndPop_pred"
  /\ th[t].op = "WaitAndPop"
  /\ queue_ # <<>>
  /\ th' = [th EXCEPT ![t].pc = th[t].ret, ![t].exc = TRUE]
  /\ sq_mu_' = NoThread
  /\ UNCHANGED <<queue_, sq_cv_>>
  /\ UNCHANGED <<obj, lqVars, wsVars, plVars, hiVars>>

\* ====================================================== WorkStealingQueue
WSInit ==
  /\ q_ = [d \in DequeIds |-> <<>>]
  /\ mu_ = [d \in DequeIds |-> NoThread]

\* Mutant of Front: the owner takes the item at the back.
Front_Back(q) == q[Len(q)]

\* Mutant of PopBack: TrySteal hands out the back item and leaves it in q_.
PopBack_Keep(q) == q

\* std::deque operations on the sequence front..back.
PushFront(q, x) == <<x>> \o q
Front(q) == q[1]
PopFront(q) == SubSeq(q, 2, Len(q))
Back(q) == q[Len(q)]
PopBack(q) == SubSeq(q, 1, Len(q) - 1)

\* Push: lock mu_ of the deque the call is made on.
WS_Push(t) ==
  /\ th[t].pc = "WS_Push"
  /\ mu_[th[t].dq] = NoThread
  /\ mu_' = [mu_ EXCEPT ![th[t].dq] = t]
  /\ th' = Goto(t, "WS_Push_body")
  /\ UNCHANGED <<q_, obj, lqVars, sqVars, plVars, hiVars>>

\* Mutant of WS_Push_body: a deque of capacity one, Push waits for space.
WS_Push_body_Bounded(t) ==
  /\ th[t].pc = "WS_Push_body"
  /\ q_[th[t].dq] = <<>>
  /\ q_' = [q_ EXCEPT ![th[t].dq] = PushFront(@, th[t].arg)]
  /\ mu_' = [mu_ EXCEPT ![th[t].dq] = NoThread]
  /\ pushed' = Append(pushed, th[t].arg)
  /\ th' = Return(t)
  /\ UNCHANGED <<obj, lqVars, sqVars, plVars, popped>>

\* q_.push_front(std::move(data)); the lock_guard releases mu_.
WS_Push_body(t) ==
  /\ th[t].pc = "WS_Push_body"
  /\ q_' = [q_ EXCEPT ![th[t].dq] = PushFront(@, th[t].arg)]
  /\ mu_' = [mu_ EXCEPT ![th[t].dq] = NoThread]
  /\ pushed' = Append(pushed, th[t].arg)
  /\ th' = Return(t)
  /\ UNCHANGED <<obj, lqVars, sqVars, plVars, popped>>

\* TryPop: lock mu_.
WS_TryPop(t) ==
  /\ th[t].pc = "WS_TryPop"
  /\ mu_[th[t].dq] = NoThread
  /\ mu_' = [mu_ EXCEPT ![th[t].dq] = t]
  /\ th' = Goto(t, "WS_TryPop_body")
  /\ UNCHANGED <<q_, obj, lqVars, sqVars, plVars, hiVars>>

\* Mutant of WS_TryPop_body: the early return on an empty deque leaves mu_
\* locked.
WS_TryPop_body_NoUnlock(t) ==
  /\ th[t].pc = "WS_TryPop_body"
  /\ IF q_[th[t].dq] = <<>>
       THEN /\ th' = [th EXCEPT ![t].pc = th[t].ret, ![t].ok = FALSE]
            /\ UNCHANGED <<q_, popped, mu_>>
       ELSE /\ th' = [th EXCEPT ![t].pc = th[t].ret, ![t].ok = TRUE,
                                ![t].value = Front(q_[th[t].dq])]
            /\ q_' = [q_ EXCEPT ![th[t].dq] = PopFront(@)]
            /\ popped' = Append(popped, Front(q_[th[t].dq]))
            /\ mu_' = [mu_ EXCEPT ![th[t].dq] = NoThread]
  /\ UNCHANGED <<obj, lqVars, sqVars, plVars, pushed>>

\* if (q_.empty()) return false; *value = front; q_.pop_front(); return true.
WS_TryPop_body(t) ==
  /\ th[t].pc = "WS_TryPop_body"
  /\ IF q_[th[t].dq] = <<>>
       THEN /\ th' = [th EXCEPT ![t].pc = th[t].ret, ![t].ok = FALSE]
            /\ UNCHANGED <<q_, popped>>
       ELSE /\ th' = [th EXCEPT ![t].pc = th[t].ret, ![t].ok = TRUE,
                                ![t].value = Front(q_[th[t].dq])]
            /\ q_' = [q_ EXCEPT ![th[t].dq] = PopFront(@)]
            /\ popped' = Append(popped, Front(q_[th[t].dq]))
  /\ mu_' = [mu_ EXCEPT ![th[t].dq] = NoThread]
  /\ UNCHANGED <<obj, lqVars, sqVars, plVars, pushed>>

\* TrySteal: lock mu_.
WS_TrySteal(t) ==
  /\ th[t].pc = "WS_TrySteal"
  /\ mu_[th[t].dq] = NoThread
  /\ mu_' = [mu_ EXCEPT ![th[t].dq] = t]
  /\ th' = Goto(t, "WS_TrySteal_body")
  /\ UNCHANGED <<q_, obj, lqVars, sqVars, plVars, hiVars>>

\* Mutant of WS_TrySteal_body: a successful steal returns with mu_ held.
WS_TrySteal_body_KeepLock(t) ==
  /\ th[t].pc = "WS_TrySteal_body"
  /\ IF q_[th[t].dq] = <<>>
       THEN /\ th' = [th EXCEPT ![t].pc = th[t].ret, ![t].ok = FALSE]
            /\ mu_' = [mu_ EXCEPT ![th[t].dq] = NoThread]
            /\ UNCHANGED <<q_, popped>>
       ELSE /\ th' = [th EXCEPT ![t].pc = th[t].ret, ![t].ok = TRUE,
                                ![t].value = Back(q_[th[t].dq])]
            /\ q_' = [q_ EXCEPT ![th[t].dq] = PopBack(@)]
            /\ popped' = Append(popped, Back(q_[th[t].dq]))
            /\ mu_' = mu_
  /\ UNCHANGED <<obj, lqVars, sqVars, plVars, pushed>>

\* if (q_.empty()) return false; *value = back; q_.pop_back(); return true.
WS_TrySteal_body(t) ==
  /\ th[t].pc = "WS_TrySteal_body"
  /\ IF q_[th[t].dq] = <<>>
       THEN /\ th' = [th EXCEPT ![t].pc = th[t].ret, ![t].ok = FALSE]
            /\ UNCHANGED <<q_, popped>>
       ELSE /\ th' = [th EXCEPT ![t].pc = th[t].ret, ![t].ok = TRUE,
                                ![t].value = Back(q_[th[t].dq])]
            /\ q_' = [q_ EXCEPT ![th[t].dq] = PopBack(@)]
            /\ popped' = Append(popped, Back(q_[th[t].dq]))
  /\ mu_' = [mu_ EXCEPT ![th[t].dq] = NoThread]
  /\ UNCHANGED <<obj, lqVars, sqVars, plVars, pushed>>

\* Empty: lock mu_.
WS_Empty(t) ==
  /\ th[t].pc = "WS_Empty"
  /\ mu_[th[t].dq] = NoThread
  /\ mu_' = [mu_ EXCEPT ![th[t].dq] = t]
  /\ th' = Goto(t, "WS_Empty_ret")
  /\ UNCHANGED <<q_, obj, lqVars, sqVars, plVars, hiVars>>

\* return q_.empty();
WS_Empty_ret(t) ==
  /\ th[t].pc = "WS_Empty_ret"
  /\ mu_' = [mu_ EXCEPT ![th[t].dq] = NoThread]
  /\ th' = [th EXCEPT ![t].pc = th[t].ret, ![t].ok = (q_[th[t].dq] = <<>>)]
  /\ UNCHANGED <<q_, obj, lqVars, sqVars, plVars, hiVars>>

\* ============================================================ ThreadPool
\* The pool's own state before any worker thread has been started.
PlInit ==
  /\ done_ = FALSE
  /\ local_task_queue_ = [t \in Threads |-> NoQueue]
  /\ my_index_ = [t \in Threads |-> 0]
  /\ ntask = 0
  /\ runs = [k \in TaskIds |-> 0]
  /\ future = [k \in TaskIds |-> "none"]
  /\ submitter = [k \in TaskIds |-> NoThread]

\* The index the constructor passes to the Worker that thread t runs.
WorkerIndex(t) == CHOOSE d \in DequeIds : WorkerThread[d + 1] = t

\* Mutant of SubmitTarget: every task goes to the global queue.
SubmitTarget_Global(t) == "Push"

\* Submit: if (local_task_queue_) local_task_queue_->Push(task), else
\* global_task_queue_.Push(task).  The entry label of the Push called.
SubmitTarget(t) ==
  IF local_task_queue_[t] # NoQueue THEN "WS_Push" ELSE "Push"

\* Submit(f) called by thread t, which continues at label l afterwards: a
\* packaged_task and its future are made, then the task is pushed.
Submit(t, l) ==
  /\ ntask < MaxTasks
  /\ ntask' = ntask + 1
  /\ future' = [future EXCEPT ![ntask + 1] = "pending"]
  /\ submitter' = [submitter EXCEPT ![ntask + 1] = t]
  /\ th' = [th EXCEPT ![t].pc = SubmitTarget(t), ![t].ret = l,
                      ![t].op = "Push", ![t].arg = ntask + 1,
                      ![t].dq = IF local_task_queue_[t] # NoQueue
                                  THEN local_task_queue_[t] ELSE @]
  /\ UNCHANGED <<done_, local_task_queue_, my_index_, runs>>
  /\ UNCHANGED <<obj, lqVars, sqVars, wsVars, hiVars>>

\* A thread outside the pool (the pool's owner) submits a task.
ExternalSubmit(t) ==
  /\ th[t].pc = "client"
  /\ Submit(t, "client")

\* Worker(index): my_index_ = index; local_task_queue_ = the own deque.
Worker(t) ==
  /\ th[t].pc = "Worker"
  /\ my_index_' = [my_index_ EXCEPT ![t] = WorkerIndex(t)]
  /\ local_task_queue_' = [local_task_queue_ EXCEPT ![t] = WorkerIndex(t)]
  /\ th' = Goto(t, "Worker_loop")
  /\ UNCHANGED <<done_, ntask, runs, future, submitter>>
  /\ UNCHANGED <<obj, lqVars, sqVars, wsVars, hiVars>>

\* Mutant of Worker_loop: RunPendingTask starts with the global queue.
Worker_loop_SkipLocal(t) ==
  /\ th[t].pc = "Worker_loop"
  /\ th' = [th EXCEPT ![t].pc = IF done_ THEN "exited" ELSE "TryPopHead",
                      ![t].ret = "AfterGlobal", ![t].op = "TryPopV",
                      ![t].value = NoValue, ![t].ok = FALSE,
                      ![t].src = "none",
                      ![t].tried = IF done_ THEN <<>> ELSE <<"global">>]
  /\ UNCHANGED <<obj, lqVars, sqVars, wsVars, plVars, hiVars>>

\* while (!done_) RunPendingTask(): the loop test, and on entry to
\* RunPendingTask an empty FunctionWrapper and PopTaskFromLocalQueue, which
\* calls TryPop on the own deque if the thread has one.
Worker_loop(t) ==
  /\ th[t].pc = "Worker_loop"
  /\ th' = [th EXCEPT ![t].pc = IF done_ THEN "exited"
                                ELSE IF local_task_queue_[t] # NoQueue
                                       THEN "WS_TryPop" ELSE "AfterLocal",
                      ![t].ret = "AfterLocal", ![t].op = "TryPopV",
                      ![t].dq = IF local_task_queue_[t] # NoQueue
                                  THEN local_task_queue_[t] ELSE @,
                      ![t].value = NoValue, ![t].ok = FALSE,
                      ![t].src = "none", ![t].rd = done_,
                      ![t].tried = IF ~done_ /\ local_task_queue_[t] # NoQueue
                                     THEN <<"local">> ELSE <<>>]
  /\ UNCHANGED <<obj, lqVars, sqVars, wsVars, plVars, hiVars>>

\* PopTaskFromLocalQueue(&task) || PopTaskFromGlobalQueue(&task): the global
\* queue's TryPop is called only if the local pop returned false.
PopTaskFromGlobalQueue(t) ==
  /\ th[t].pc = "AfterLocal"
  /\ th' = IF th[t].ok
             THEN [th EXCEPT ![t].pc = "task", ![t].src = "local"]
             ELSE [th EXCEPT ![t].pc = "TryPopHead", ![t].ret = "AfterGlobal",
                             ![t].op = "TryPopV",
                             ![t].tried = Append(@, "global")]
  /\ UNCHANGED <<obj, lqVars, sqVars, wsVars, plVars, hiVars>>

\* ... || PopTaskFromOtherThreadQueue(&task): entered only if the global pop
\* returned false; i = 0.
PopTaskFromOtherThreadQueue(t) ==
  /\ th[t].pc = "AfterGlobal"
  /\ th' = IF th[t].ok
             THEN [th EXCEPT ![t].pc = "task", ![t].src = "global"]
             ELSE [th EXCEPT ![t].pc = "Steal_loop", ![t].i = 0,
                             ![t].tried = Append(@, "steal")]
  /\ UNCHANGED <<obj, lqVars, sqVars, wsVars, plVars, hiVars>>

\* The deque tried at step i of the steal loop.
StealIndex(t, i) == (my_index_[t] + 1 + i) % NumWorkers

\* for (i = 0; i < local_task_queues_.size(); i++) TrySteal on deque
\* (my_index_ + 1 + i) % size; return false after the last one, and then
\* RunPendingTask goes to its else branch.
Steal_loop(t) ==
  /\ th[t].pc = "Steal_loop"
  /\ th' = IF th[t].i < NumWorkers
             THEN [th EXCEPT ![t].pc = "WS_TrySteal", ![t].ret = "AfterSteal",
                             ![t].op = "TrySteal",
                             ![t].dq = StealIndex(t, th[t].i)]
             ELSE [th EXCEPT ![t].pc = "yield"]
  /\ UNCHANGED <<obj, lqVars, sqVars, wsVars, plVars, hiVars>>

\* if (TrySteal(task)) return true; otherwise the next i.
Steal_ret(t) ==
  /\ th[t].pc = "AfterSteal"
  /\ th' = IF th[t].ok
             THEN [th EXCEPT ![t].pc = "task", ![t].src = "steal"]
             ELSE [th EXCEPT ![t].pc = "Steal_loop", ![t].i = @ + 1]
  /\ UNCHANGED <<obj, lqVars, sqVars, wsVars, plVars, hiVars>>

\* task(): the FunctionWrapper invokes the packaged_task.
RunTask(t) ==
  /\ th[t].pc = "task"
  /\ runs' = [runs EXCEPT ![th[t].value] = @ + 1]
  /\ th' = [th EXCEPT ![t].pc = "Task_body", ![t].cnt = @ + 1,
                      ![t].late = IF done_ THEN @ + 1 ELSE @]
  /\ UNCHANGED <<done_, local_task_queue_, my_index_, ntask, future, submitter>>
  /\ UNCHANGED <<obj, lqVars, sqVars, wsVars, hiVars>>

\* A running task submits another task to the pool.
Task_Submit(t) ==
  /\ th[t].pc = "Task_body"
  /\ Submit(t, "Task_body")

\* Mutant of Task_return: an exception of the callable leaves the worker's
\* thread function.
Task_return_Escape(t) ==
  /\ th[t].pc = "Task_body"
  /\ \E r \in {"ready", "error"} :
       /\ future' = [future EXCEPT ![th[t].value] = r]
       /\ th' = [th EXCEPT ![t] =
                   [Frame0 EXCEPT !.pc = IF r = "error" THEN "exited"
                                                        ELSE "Worker_loop",
                                  !.late = th[t].late]]
  /\ UNCHANGED <<done_, local_task_queue_, my_index_, ntask, runs, submitter>>
  /\ UNCHANGED <<obj, lqVars, sqVars, wsVars, hiVars>>

\* Mutant of Task_return: after a task the worker goes straight to its next
\* local pop, without testing done_.
Task_return_Again(t) ==
  /\ th[t].pc = "Task_body"
  /\ \E r \in {"ready", "error"} :
       future' = [future EXCEPT ![th[t].value] = r]
  /\ th' = [th EXCEPT ![t] = [Frame0 EXCEPT !.pc = "WS_TryPop",
                                             !.ret = "AfterLocal",
                                             !.op = "TryPopV",
                                             !.dq = local_task_queue_[t],
                                             !.tried = <<"local">>,
                                             !.late = th[t].late]]
  /\ UNCHANGED <<done_, local_task_queue_, my_index_, ntask, runs, submitter>>
  /\ UNCHANGED <<obj, lqVars, sqVars, wsVars, hiVars>>

\* The callable returns or throws; the packaged_task stores the value or the
\* exception in the shared state and makes the future ready.  RunPendingTask
\* returns and its FunctionWrapper is destroyed.
Task_return(t) ==
  /\ th[t].pc = "Task_body"
  /\ \E r \in {"ready", "error"} :
       future' = [future EXCEPT ![th[t].value] = r]
  /\ th' = [th EXCEPT ![t] = [Frame0 EXCEPT !.pc = "Worker_loop",
                                             !.late = th[t].late]]
  /\ UNCHANGED <<done_, local_task_queue_, my_index_, ntask, runs, submitter>>
  /\ UNCHANGED <<obj, lqVars, sqVars, wsVars, hiVars>>

\* Mutant of Yield: a worker that found nothing leaves its loop.
Yield_Exit(t) ==
  /\ th[t].pc = "yield"
  /\ th' = [th EXCEPT ![t] = [Frame0 EXCEPT !.pc = "exited"]]
  /\ UNCHANGED <<obj, lqVars, sqVars, wsVars, plVars, hiVars>>

\* else std::this_thread::yield(); RunPendingTask returns.
Yield(t) ==
  /\ th[t].pc = "yield"
  /\ th' = [th EXCEPT ![t] = [Frame0 EXCEPT !.pc = "Worker_loop",
                                             !.late = th[t].late]]
  /\ UNCHANGED <<obj, lqVars, sqVars, wsVars, plVars, hiVars>>

\* Mutant of Destroy: the destructor joins without setting done_.
Destroy_NoFlag(t) ==
  /\ th[t].pc = "client"
  /\ th' = Goto(t, "join")
  /\ UNCHANGED <<obj, lqVars, sqVars, wsVars, plVars, hiVars>>

\* ~ThreadPool() { done_ = true; }
Destroy(t) ==
  /\ th[t].pc = "client"
  /\ done_' = TRUE
  /\ th' = Goto(t, "join")
  /\ UNCHANGED <<local_task_queue_, my_index_, ntask, runs, future, submitter>>
  /\ UNCHANGED <<obj, lqVars, sqVars, wsVars, hiVars>>

\* The tasks still stored in the global queue or in a deque.
Queued ==
  Range(LQContents) \cup UNION {Range(q_[d]) : d \in DequeIds}

\* The members are destroyed in reverse order: joiner_ joins every worker,
\* then the deques and the global queue destroy the tasks they still hold;
\* a packaged_task destroyed before it was invoked makes its future ready
\* with broken_promise.
JoinThreads(t) ==
  /\ th[t].pc = "join"
  /\ \A w \in Workers : th[w].pc = "exited"
  /\ future' = [k \in TaskIds |-> IF k \in Queued THEN "broken" ELSE future[k]]
  /\ th' = Goto(t, "destroyed")
  /\ UNCHANGED <<done_, local_task_queue_, my_index_, ntask, runs, submitter>>
  /\ UNCHANGED <<obj, lqVars, sqVars, wsVars, hiVars>>

\* ================================================= queue test harness
\* The queue classes a client can be handed.
Objects == {"LockedQueue", "SimpleLockedQueue", "WorkStealingQueue"}

\* Entry label of method m of the object under test.
Entry(m) ==
  CASE obj = "LockedQueue" ->
         (CASE m = "Push" -> "Push"
            [] m = "Empty" -> "Empty"
            [] m \in {"TryPop", "TryPopV"} -> "TryPopHead"
            [] OTHER -> "WaitForData")
    [] obj \in {"SimpleLockedQueue", "SimpleLockedQueue1"} ->
         (CASE m = "Push" -> "SQ_Push"
            [] m = "Empty" -> "SQ_Empty"
            [] m \in {"TryPop", "TryPopV"} -> "SQ_TryPop"
            [] OTHER -> "SQ_WaitAndPop")
    [] OTHER ->
         (CASE m = "Push" -> "WS_Push"
            [] m = "Empty" -> "WS_Empty"
            [] m = "TrySteal" -> "WS_TrySteal"
            [] OTHER -> "WS_TryPop")

\* The pop-side methods a consumer calls on the object under test.  Consumer
\* c1 polls (Empty and the TryPop overloads; on a WorkStealingQueue it is the
\* owner-side popper), consumer c2 blocks in the WaitAndPop overloads (on a
\* WorkStealingQueue, which has no blocking pop, it is the thief).
PopMethods(t) ==
  IF obj = "WorkStealingQueue"
    THEN (IF t = "c1" THEN {"Empty", "TryPopV"} ELSE {"TrySteal"})
    ELSE (IF t = "c1" THEN {"Empty", "TryPop", "TryPopV"}
                      ELSE {"WaitAndPop", "WaitAndPopV"})

\* A thread calls method m with argument x.
Call(t, m, x) ==
  [th EXCEPT ![t].pc = Entry(m), ![t].ret = "client", ![t].op = m,
             ![t].arg = x, ![t].res = NoValue, ![t].ok = FALSE,
             ![t].cnt = @ + 1]

\* The producer thread of the tests: for (i = 0; i < n; i++) q.Push(i).
Produce(t) ==
  /\ th[t].pc = "client"
  /\ th[t].cnt < MaxPush
  /\ th' = Call(t, "Push", Value(t, th[t].cnt))
  /\ UNCHANGED <<obj, lqVars, sqVars, wsVars, plVars, hiVars>>

\* A consumer thread calling one of the pop-side methods.
Consume(t) ==
  /\ th[t].pc = "client"
  /\ th[t].cnt < MaxPop
  /\ \E m \in PopMethods(t) : th' = Call(t, m, NoValue)
  /\ UNCHANGED <<obj, lqVars, sqVars, wsVars, plVars, hiVars>>

\* The consumer thread of the tests: for (i = 0; i < n; i++) q.WaitAndPop().
ConsumeWait(t) ==
  /\ th[t].pc = "client"
  /\ th[t].cnt < MaxPush
  /\ th' = Call(t, "WaitAndPop", NoValue)
  /\ UNCHANGED <<obj, lqVars, sqVars, wsVars, plVars, hiVars>>

QueueInit ==
  /\ obj \in Objects
  /\ LQInit /\ SQInit /\ WSInit /\ PlInit /\ ThInit
  /\ pushed = <<>>
  /\ popped = <<>>

LQStep(t) ==
  \/ Push(t) \/ Push_link(t) \/ Push_tail(t) \/ Push_notify(t)
  \/ GetTail(t) \/ GetTail_ret(t)
  \/ Empty(t) \/ Empty_ret(t)
  \/ TryPopHead(t) \/ TryPopHead_cmp(t)
  \/ WaitForData(t) \/ WaitForData_pred(t) \/ WaitForData_wake(t)
  \/ SpuriousWakeup(t)

SQStep(t) ==
  \/ SQ_Push(t) \/ SQ_Push_body(t)
  \/ SQ_Empty(t) \/ SQ_Empty_ret(t)
  \/ SQ_TryPop(t) \/ SQ_TryPop_body(t)
  \/ SQ_WaitAndPop(t) \/ SQ_WaitAndPop_pred(t) \/ SQ_WaitAndPop_wake(t)
  \/ SQ_SpuriousWakeup(t)

WSStep(t) ==
  \/ WS_Push(t) \/ WS_Push_body(t)
  \/ WS_TryPop(t) \/ WS_TryPop_body(t)
  \/ WS_TrySteal(t) \/ WS_TrySteal_body(t)
  \/ WS_Empty(t) \/ WS_Empty_ret(t)

QueueNext ==
  \/ \E t \in Producers : Produce(t)
  \/ \E t \in Consumers : Consume(t)
  \/ \E t \in Producers \cup Consumers : LQStep(t) \/ SQStep(t) \/ WSStep(t)

\* Several producers and several consumers on one queue object.
QueueSpec == QueueInit /\ [][QueueNext]_vars

\* ------------------------------------------------ one producer, one consumer
\* OneProduceOneConsumer of the tests: the producer pushes 0..n-1 while the
\* consumer makes n blocking pops, on a SimpleLockedQueue or a LockedQueue.
TestInit ==
  /\ obj \in {"LockedQueue", "SimpleLockedQueue"}
  /\ LQInit /\ SQInit /\ WSInit /\ PlInit /\ ThInit
  /\ pushed = <<>>
  /\ popped = <<>>

TestNext ==
  \/ Produce("p1")
  \/ ConsumeWait("c2")
  \/ \E t \in {"p1", "c2"} :
       \/ Push(t) \/ Push_link(t) \/ Push_tail(t) \/ Push_notify(t)
       \/ GetTail(t) \/ GetTail_ret(t)
       \/ WaitForData(t) \/ WaitForData_pred(t) \/ WaitForData_wake(t)
       \/ SpuriousWakeup(t)
       \/ SQ_Push(t) \/ SQ_Push_body(t)
       \/ SQ_WaitAndPop(t) \/ SQ_WaitAndPop_pred(t) \/ SQ_WaitAndPop_wake(t)
       \/ SQ_SpuriousWakeup(t)

TestSpec == TestInit /\ [][TestNext]_vars

\* ------------------------------------------------------- several waiters
\* Several threads block in WaitAndPop of a single-lock queue, with or
\* without the allocation in the pop path, while producers push.
WaitAndPopMethods == {"WaitAndPop", "WaitAndPopV"}

Wait(t) ==
  /\ th[t].pc = "client"
  /\ th[t].cnt < MaxPop
  /\ \E m \in WaitAndPopMethods : th' = Call(t, m, NoValue)
  /\ UNCHANGED <<obj, lqVars, sqVars, wsVars, plVars, hiVars>>

WaitersInit ==
  /\ obj \in {"SimpleLockedQueue", "SimpleLockedQueue1"}
  /\ LQInit /\ SQInit /\ WSInit /\ PlInit /\ ThInit
  /\ pushed = <<>>
  /\ popped = <<>>

\* A step of thread t inside Push or WaitAndPop, other than a spurious
\* wake-up.
WaiterStep(t) ==
  \/ SQ_Push(t) \/ SQ_Push_body(t)
  \/ SQ_WaitAndPop(t) \/ SQ_WaitAndPop_pred(t) \/ SQ_WaitAndPop_wake(t)
  \/ SQ1_WaitAndPop_throw(t)

WaitersNext ==
  \/ \E t \in Producers : Produce(t)
  \/ \E t \in Consumers : Wait(t)
  \/ \E t \in Producers \cup Consumers : WaiterStep(t)
  \/ \E t \in Consumers : SQ_SpuriousWakeup(t)

\* Threads inside a call are scheduled fairly and a thread waiting for mu_
\* eventually gets it; nothing forces a client to make another call, and
\* nothing forces a spurious wake-up.
WaitersSpec ==
  /\ WaitersInit
  /\ [][WaitersNext]_vars
  /\ \A t \in Producers \cup Consumers : SF_vars(WaiterStep(t))

\* ------------------------------------------------------ one deque, one thief
\* A WorkStealingQueue used the way the pool uses it: its owner pushes tasks
\* 1, 2, 3, ... and pops, another thread steals.
DequeOwner == "w0"
DequeThief == "w1"

OwnerPush(t) ==
  /\ th[t].pc = "client"
  /\ th[t].cnt < MaxOwnerOps
  /\ th' = Call(t, "Push", Len(pushed) + 1)
  /\ UNCHANGED <<obj, lqVars, sqVars, wsVars, plVars, hiVars>>

OwnerTryPop(t) ==
  /\ th[t].pc = "client"
  /\ th[t].cnt < MaxOwnerOps
  /\ th' = Call(t, "TryPopV", NoValue)
  /\ UNCHANGED <<obj, lqVars, sqVars, wsVars, plVars, hiVars>>

ThiefTrySteal(t) ==
  /\ th[t].pc = "client"
  /\ th[t].cnt < MaxSteals
  /\ th' = Call(t, "TrySteal", NoValue)
  /\ UNCHANGED <<obj, lqVars, sqVars, wsVars, plVars, hiVars>>

DequeInit ==
  /\ obj = "WorkStealingQueue"
  /\ LQInit /\ SQInit /\ WSInit /\ PlInit /\ ThInit
  /\ pushed = <<>>
  /\ popped = <<>>

DequeNext ==
  \/ OwnerPush(DequeOwner)
  \/ OwnerTryPop(DequeOwner)
  \/ ThiefTrySteal(DequeThief)
  \/ \E t \in {DequeOwner, DequeThief} :
       \/ WS_Push(t) \/ WS_Push_body(t)
       \/ WS_TryPop(t) \/ WS_TryPop_body(t)
       \/ WS_TrySteal(t) \/ WS_TrySteal_body(t)

DequeSpec == DequeInit /\ [][DequeNext]_vars

\* ------------------------------------------------------------- the pool
\* A constructed pool: every worker thread has been started and has not run
\* yet, the queues are empty.
PoolInit ==
  /\ obj = "ThreadPool"
  /\ LQInit /\ SQInit /\ WSInit /\ PlInit
  /\ th = [t \in Threads |->
             IF t \in Workers THEN [Frame0 EXCEPT !.pc = "Worker"] ELSE Frame0]
  /\ pushed = <<>>
  /\ popped = <<>>

\* A step of worker t, in the pool's code or in one of the queues.
WorkerStep(t) ==
  \/ Worker(t) \/ Worker_loop(t)
  \/ PopTaskFromGlobalQueue(t) \/ PopTaskFromOtherThreadQueue(t)
  \/ Steal_loop(t) \/ Steal_ret(t)
  \/ RunTask(t) \/ Task_Submit(t) \/ Task_return(t) \/ Yield(t)
  \/ WS_Push(t) \/ WS_Push_body(t)
  \/ WS_TryPop(t) \/ WS_TryPop_body(t)
  \/ WS_TrySteal(t) \/ WS_TrySteal_body(t)
  \/ TryPopHead(t) \/ GetTail(t) \/ GetTail_ret(t) \/ TryPopHead_cmp(t)

\* A step of the owner inside a Submit it has called.
OwnerStep(t) ==
  \/ Push(t) \/ Push_link(t) \/ Push_tail(t) \/ Push_notify(t)

PoolNext ==
  \/ ExternalSubmit(Owner)
  \/ OwnerStep(Owner)
  \/ Destroy(Owner)
  \/ JoinThreads(Owner)
  \/ \E t \in Workers : WorkerStep(t)

PoolSpec == PoolInit /\ [][PoolNext]_vars

\* The pool while it is not destroyed, with the scheduling the pool relies
\* on: a worker thread that can take a step keeps being scheduled, a thread
\* waiting for a mutex that is released again and again acquires it, and a
\* Submit that has been called runs to its end.
LiveWorkerStep(t) == WorkerStep(t) /\ ntask' <= MaxLiveTasks

PoolLiveNext ==
  \/ ExternalSubmit(Owner) /\ ntask' <= MaxLiveTasks
  \/ OwnerStep(Owner)
  \/ \E t \in Workers : LiveWorkerStep(t)

PoolLiveSpec ==
  /\ PoolInit
  /\ [][PoolLiveNext]_vars
  /\ \A t \in Workers : SF_vars(LiveWorkerStep(t))
  /\ SF_vars(OwnerStep(Owner))

\* The pool with its destructor, under the same scheduling: all the steps of
\* a thread that can run are eventually taken, and the join of the
\* destructor returns once every worker has exited.
PoolFairNext ==
  \/ PoolLiveNext
  \/ Destroy(Owner)
  \/ JoinThreads(Owner)

PoolFairSpec ==
  /\ PoolInit
  /\ [][PoolFairNext]_vars
  /\ \A t \in Workers : WF_vars(LiveWorkerStep(t))
  /\ WF_vars(OwnerStep(Owner))
  /\ WF_vars(JoinThreads(Owner))

\* ============================================================= properties
\* The queue under test is one of the FIFO queues.
IsFifoQueue == obj \in {"LockedQueue", "SimpleLockedQueue"}

\* The values the object under test holds, oldest first.
Contents ==
  CASE obj = "LockedQueue" -> LQContents
    [] obj = "SimpleLockedQueue" -> queue_
    [] OTHER -> q_[0]

\* The producer that pushes value v, and v's place in the order of pushes.
ProducerOf(v) == IF v < MaxPush THEN "p1" ELSE "p2"
PushIndex(v) == CHOOSE k \in DOMAIN pushed : pushed[k] = v

\* A thread has returned from a call of method m.
Returned(t, m) == th[t].pc = "client" /\ th[t].op = m /\ th[t].cnt > 0

\* C1: FIFO.  On the LockedQueue and on the single-lock queue the values
\* handed out by successful pops, in the order the pops took effect, are a
\* prefix of the values pushed, in the order the pushes took effect; and the
\* values of one producer come out in the order of its loop (0, 1, ...).
C1_Fifo ==
  IsFifoQueue =>
    /\ IsPrefix(popped, pushed)
    /\ \A j, k \in DOMAIN popped :
         (j < k /\ ProducerOf(popped[j]) = ProducerOf(popped[k]))
           => popped[j] < popped[k]

\* Both producers' values have been popped by the two consumers of a
\* LockedQueue, p2's first value ahead of p1's.
C1_Witness ==
  /\ obj = "LockedQueue"
  /\ Len(popped) = 3
  /\ popped[1] = Value("p2", 0)
  /\ popped[2] = Value("p1", 0)
  /\ Returned("c1", "TryPop")
  /\ Returned("c2", "WaitAndPop")

\* C2: no loss, no duplication on the LockedQueue.  In every state the values
\* handed out by pops together with the values still in the node chain are,
\* as a multiset, the values whose Push has taken effect, and no value has
\* been handed out twice.
C2_NoLossNoDup ==
  obj = "LockedQueue" =>
    /\ BagOfSeq(popped) (+) BagOfSeq(LQContents) = BagOfSeq(pushed)
    /\ Cardinality(Range(popped)) = Len(popped)

\* Two producers and two consumers have been at work: both consumers hold a
\* value and the chain still holds the rest.
C2_Witness ==
  /\ obj = "LockedQueue"
  /\ Len(pushed) = 4
  /\ Len(popped) = 2
  /\ Len(LQContents) = 2
  /\ Returned("c1", "TryPopV") /\ th["c1"].ok
  /\ Returned("c2", "WaitAndPopV") /\ th["c2"].value # NoValue
  /\ th["c1"].value # th["c2"].value

\* The producer of the test has returned from its last Push.
ProducerFinished == th["p1"].pc = "client" /\ th["p1"].cnt = MaxPush

\* C3: blocking pop liveness on the LockedQueue, one producer and one
\* consumer.  No state is reachable in which the producer has finished (so no
\* notification is still to come), the queue holds an item and the consumer
\* is parked on cv_.
C3_NoLostWakeup ==
  ~(/\ obj = "LockedQueue"
    /\ ProducerFinished
    /\ LQContents # <<>>
    /\ "c2" \in cv_)

\* The same statement for the single-lock queue, whose Push notifies while it
\* holds the mutex the waiter's predicate is evaluated under.
SQ_NoLostWakeup ==
  ~(/\ obj = "SimpleLockedQueue"
    /\ ProducerFinished
    /\ queue_ # <<>>
    /\ "c2" \in sq_cv_)

\* Thread t is at the step of a non-blocking pop that tests for emptiness.
TryPopBody(t) ==
  th[t].pc \in {"TryPopHead_cmp", "SQ_TryPop_body",
                "WS_TryPop_body", "WS_TrySteal_body"}

\* Thread t's step returns the "no value" indicator: an empty shared_ptr
\* from TryPop(), false from TryPop(T*) and TrySteal.
ReturnsNone(t) ==
  /\ th'[t].pc = "client"
  /\ IF th[t].op = "TryPop" THEN th'[t].res = NoValue ELSE ~th'[t].ok

\* Thread t holds none of the mutexes.
HoldsNoLock(t) ==
  /\ head_mu_ # t /\ tail_mu_ # t /\ sq_mu_ # t
  /\ \A d \in DequeIds : mu_[d] # t

\* C4: a non-blocking pop (TryPop of the LockedQueue and of the single-lock
\* queue, TryPop and TrySteal of the WorkStealingQueue) on an empty queue
\* returns "no value"; a call that returns "no value" leaves the node chain,
\* head_, tail_, the stored items and the caller's out-parameter as they
\* were, holds no mutex afterwards, and never parks on a condition variable.
C4_EmptyTryPop ==
  /\ [](\A t \in Consumers :
          th[t].op \in {"TryPop", "TryPopV", "TrySteal"}
            => t \notin cv_ /\ t \notin sq_cv_)
  /\ [][\A t \in Consumers :
          (TryPopBody(t) /\ th'[t].pc # th[t].pc) =>
            /\ (Contents = <<>>) => ReturnsNone(t)
            /\ ReturnsNone(t) =>
                 /\ UNCHANGED <<head_, tail_, data_, next_, nalloc, queue_, q_>>
                 /\ UNCHANGED <<pushed, popped>>
                 /\ th'[t].value = th[t].value
                 /\ HoldsNoLock(t)']_vars

\* Consumer c1 first took the only item of a LockedQueue with TryPop(T*) and
\* then called TryPop(T*) on the empty queue: it returned false and the
\* out-parameter still holds the item of the first call.
C4_Witness ==
  /\ obj = "LockedQueue"
  /\ Returned("c1", "TryPopV")
  /\ th["c1"].cnt = 2
  /\ ~th["c1"].ok
  /\ th["c1"].value # NoValue
  /\ popped = <<th["c1"].value>>
  /\ pushed = popped

\* Thread a is at a lock acquisition and the mutex is held by thread b.
WantsTail(a) == th[a].pc \in {"Push", "GetTail"}
WantsHead(a) ==
  th[a].pc \in {"Empty", "TryPopHead", "WaitForData", "WaitForData_wake"}
BlockedBy(a, b) ==
  \/ WantsTail(a) /\ tail_mu_ = b
  \/ WantsHead(a) /\ head_mu_ = b

\* C5 as stated: on the LockedQueue no popping thread is ever blocked on a
\* mutex held by a pushing thread, and no pushing thread on a mutex held by a
\* popping thread.
C5_NeverBlockEachOther ==
  \A a \in Producers, b \in Consumers : ~BlockedBy(a, b) /\ ~BlockedBy(b, a)

\* C5 as amended: Push takes tail_mu_ only, it never holds or requests
\* head_mu_; a popping thread holds tail_mu_ only inside GetTail, nested in
\* head_mu_, for the one read of tail_; so tail_mu_ is the only mutex on
\* which a pushing and a popping thread ever wait for each other.
C5_OnlyTailShared ==
  /\ \A a \in Producers : head_mu_ # a /\ ~WantsHead(a)
  /\ \A b \in Consumers :
       tail_mu_ = b => th[b].pc = "GetTail_ret" /\ head_mu_ = b
  /\ \A a \in Producers, b \in Consumers :
       (BlockedBy(a, b) \/ BlockedBy(b, a)) => tail_mu_ \in {a, b}

\* Consumer c1, holding head_mu_, waits in GetTail for tail_mu_, which
\* producer p1 holds in Push; producer p2 waits for it as well.
C5_Witness ==
  /\ th["c1"].pc = "GetTail"
  /\ head_mu_ = "c1"
  /\ tail_mu_ = "p1"
  /\ th["p2"].pc = "Push"

\* The item of deque q pushed last / first.
Newest(q) == CHOOSE x \in Range(q) : \A y \in Range(q) : PushIndex(y) <= PushIndex(x)
Oldest(q) == CHOOSE x \in Range(q) : \A y \in Range(q) : PushIndex(x) <= PushIndex(y)
\* q without its item x.
Without(q, x) == SelectSeq(q, LAMBDA y : y # x)

\* C6: end discipline of the WorkStealingQueue.  A successful TryPop hands
\* out the item pushed last among those present, a successful TrySteal the
\* item pushed first among those present, and each removes just that item.
C6_EndDiscipline ==
  [][\A t \in {DequeOwner, DequeThief} :
       /\ (th[t].pc = "WS_TryPop_body" /\ th'[t].pc = "client" /\ q_[0] # <<>>)
            => /\ th'[t].ok
               /\ th'[t].value = Newest(q_[0])
               /\ q_'[0] = Without(q_[0], Newest(q_[0]))
       /\ (th[t].pc = "WS_TrySteal_body" /\ th'[t].pc = "client" /\ q_[0] # <<>>)
            => /\ th'[t].ok
               /\ th'[t].value = Oldest(q_[0])
               /\ q_'[0] = Without(q_[0], Oldest(q_[0]))]_vars

\* After Push 1, 2, 3 the owner's three TryPop calls have yielded 3, 2, 1.
C6_Witness ==
  /\ pushed = <<1, 2, 3>>
  /\ popped = <<3, 2, 1>>
  /\ Returned(DequeOwner, "TryPopV")
  /\ th[DequeOwner].value = 1
  /\ th[DequeThief].cnt = 0

\* After Push 1, 2, 3 a TrySteal issued before any pop has yielded 1.
C6_WitnessSteal ==
  /\ pushed = <<1, 2, 3>>
  /\ popped = <<1>>
  /\ Returned(DequeThief, "TrySteal")
  /\ th[DequeThief].value = 1

\* ------------------------------------------------------------- the pool
Count(q, k) == Cardinality({j \in DOMAIN q : q[j] = k})

\* Thread t is inside the Push of a Submit and still holds task k.
InFlight(t, k) ==
  /\ th[t].pc \in {"Push", "Push_link", "Push_tail", "WS_Push", "WS_Push_body"}
  /\ th[t].arg = k

\* Worker t holds task k in the FunctionWrapper of its RunPendingTask.
Holds(t, k) == t \in Workers /\ th[t].value = k

\* The number of places task k is in: queues, submitters, workers.
Places(k) ==
  Count(LQContents, k)
  + Count(q_[0], k) + Count(q_[1], k)
  + Cardinality({t \in Threads : InFlight(t, k)})
  + Cardinality({t \in Threads : Holds(t, k)})

\* C7: at-most-once execution.  In every reachable state of the pool every
\* task has been invoked at most once, every task is in at most one place
\* (the global queue, a deque, its submitter's Push, a worker), a submitted
\* task whose future is pending is in exactly one, and a task that has been
\* removed from a queue and has not finished is held by exactly one worker
\* and is in no queue.
C7_AtMostOnce ==
  \A k \in TaskIds :
    /\ runs[k] <= 1
    /\ Count(popped, k) <= 1
    /\ Places(k) <= 1
    /\ (k <= ntask /\ future[k] = "pending") => Places(k) = 1
    /\ (Count(popped, k) = 1 /\ future[k] = "pending") =>
         /\ Cardinality({t \in Threads : Holds(t, k)}) = 1
         /\ k \notin Queued
    /\ (runs[k] = 1 /\ future[k] = "pending") =>
         \E t \in Workers : Holds(t, k) /\ th[t].pc \notin {"task", "exited"}

\* Both workers run a task at the same time, one of them a stolen one, and
\* a third task is waiting in a queue.
C7_Witness ==
  /\ \E t, u \in Workers :
       /\ t # u
       /\ th[t].pc = "Task_body" /\ th[t].src = "steal"
       /\ th[u].pc = "Task_body" /\ th[u].src = "global"
  /\ Queued # {}

\* The task has been invoked and its future is ready (value or exception).
Completed(k) == runs[k] = 1 /\ future[k] \in {"ready", "error"}

\* C8: pool liveness.  While the pool is not destroyed and the threads are
\* scheduled fairly, every task that has been submitted, by the owner or by
\* a running task, is eventually invoked and its future completes, and no
\* task stays in the global queue or in a deque forever.
C8_PoolLiveness ==
  \A k \in TaskIds :
    /\ (future[k] = "pending") ~> Completed(k)
    /\ (k \in Queued) ~> (k \notin Queued /\ runs[k] = 1)

\* Every task of the run has completed; one came through the global queue
\* and one was submitted by a running task to its worker's deque.
C8_Witness ==
  /\ \A k \in 1..MaxLiveTasks : Completed(k)
  /\ \E k \in 1..MaxLiveTasks : submitter[k] = Owner
  /\ \E k \in 1..MaxLiveTasks : submitter[k] \in Workers

\* C9: Submit routing.  A task is in deque d only if worker d submitted it,
\* and in the global queue only if a thread that is no worker submitted it;
\* inside Submit a caller whose thread-local deque pointer is set pushes to
\* its own deque, any other caller pushes to the global queue.
C9_SubmitRouting ==
  \A k \in TaskIds :
    /\ \A d \in DequeIds :
         Count(q_[d], k) > 0 => submitter[k] = WorkerThread[d + 1]
    /\ Count(LQContents, k) > 0 => submitter[k] \notin Workers
    /\ \A t \in Threads :
         InFlight(t, k) =>
           /\ submitter[k] = t
           /\ t \in Workers =>
                /\ local_task_queue_[t] = WorkerIndex(t)
                /\ th[t].pc \in {"WS_Push", "WS_Push_body"}
                /\ th[t].dq = WorkerIndex(t)
           /\ local_task_queue_[t] = NoQueue =>
                th[t].pc \in {"Push", "Push_link", "Push_tail"}

\* A task submitted by the owner waits in the global queue while a task
\* submitted by a running task waits in that worker's deque.
C9_Witness ==
  /\ \E k \in TaskIds : Count(LQContents, k) > 0 /\ submitter[k] = Owner
  /\ \E k \in TaskIds, d \in DequeIds :
       Count(q_[d], k) > 0 /\ submitter[k] = WorkerThread[d + 1]

\* Worker t is inside RunPendingTask, past the local pop.
PastLocal(t) ==
  th[t].pc \in {"AfterGlobal", "Steal_loop", "AfterSteal", "yield"}
  \/ (th[t].ret \in {"AfterGlobal", "AfterSteal"}
        /\ th[t].pc \in {"TryPopHead", "GetTail", "GetTail_ret",
                          "TryPopHead_cmp", "WS_TrySteal", "WS_TrySteal_body"})
  \/ (th[t].pc = "task" /\ th[t].src \in {"global", "steal"})

\* C10: source order of RunPendingTask.  The sources a call has tried are
\* always a prefix of local, global, steal, each tried only after the one
\* before returned nothing; the task a worker invokes comes from the source
\* tried last; a worker that yields has tried all three and holds no task;
\* while a worker is at the global queue or stealing, and when it invokes a
\* task taken there, its own deque is empty; and a call ends after exactly
\* one invocation or after one yield with no invocation.
C10_SourceOrder ==
  /\ [](\A t \in Workers :
         /\ IsPrefix(th[t].tried, <<"local", "global", "steal">>)
         /\ th[t].cnt <= 1
         /\ th[t].pc \in {"task", "Task_body"} =>
              /\ th[t].tried # <<>>
              /\ th[t].src = th[t].tried[Len(th[t].tried)]
              /\ th[t].value \in TaskIds
         /\ th[t].pc = "yield" =>
              /\ th[t].tried = <<"local", "global", "steal">>
              /\ th[t].value = NoValue
              /\ th[t].cnt = 0
         /\ PastLocal(t) => q_[my_index_[t]] = <<>>)
  /\ [][\A t \in Workers :
         /\ Len(th'[t].tried) > Len(th[t].tried) =>
              /\ ~th[t].ok
              /\ th[t].value = NoValue
         /\ (th[t].pc # "Worker_loop" /\ th'[t].pc = "Worker_loop") =>
              \/ th[t].pc = "Worker"
              \/ th[t].pc = "yield" /\ th[t].cnt = 0
              \/ th[t].pc = "Task_body" /\ th[t].cnt = 1
         /\ runs' # runs =>
              \E u \in Workers :
                /\ th[u].pc = "task"
                /\ runs' = [runs EXCEPT ![th[u].value] = @ + 1]]_vars

\* One worker invokes a task it has stolen after its local and global pops
\* returned nothing, while the other worker yields.
C10_Witness ==
  \E t, u \in Workers :
    /\ th[t].pc = "task" /\ th[t].src = "steal"
    /\ th[u].pc = "yield"

\* Worker t is inside a TrySteal called by PopTaskFromOtherThreadQueue, or
\* has just returned from it.
Stealing(t) ==
  /\ th[t].ret = "AfterSteal"
  /\ th[t].pc \in {"WS_TrySteal", "WS_TrySteal_body", "AfterSteal"}

\* C11: steal order.  A worker that falls through to stealing attempts the
\* deques (i+1) mod N, (i+2) mod N, ... in this order, stops at the first
\* attempt that succeeds, and every deque it attempts is a sibling's: its
\* index differs from the worker's own.
C11_StealOrder ==
  \A t \in Workers :
    /\ Stealing(t) =>
         /\ th[t].dq = (my_index_[t] + 1 + th[t].i) % NumWorkers
         /\ th[t].dq # my_index_[t]
    /\ (th[t].pc = "Steal_loop" /\ th[t].i > 0) => ~th[t].ok

\* The part of C11 the code keeps: round-robin order from the index after
\* the worker's own, stopping at the first success.
C11_RoundRobin ==
  \A t \in Workers :
    /\ Stealing(t) =>
         /\ th[t].i < NumWorkers
         /\ th[t].dq = (my_index_[t] + 1 + th[t].i) % NumWorkers
    /\ (th[t].pc = "Steal_loop" /\ th[t].i > 0) => ~th[t].ok

\* The labels at which a thread is inside a blocking pop or parked on a
\* condition variable.
BlockingLabels ==
  {"WaitForData", "WaitForData_pred", "WaitForData_wake", "cv_wait",
   "SQ_WaitAndPop", "SQ_WaitAndPop_pred", "SQ_WaitAndPop_wake", "sq_cv_wait"}

\* C12: graceful shutdown.  The destructor sets done_ and then joins; every
\* worker that tests the flag once it is set leaves its loop; no worker is
\* ever in a blocking pop or parked on a condition variable; and under fair
\* scheduling the join, hence the destructor, returns, with every worker
\* exited.
C12_Shutdown ==
  /\ (th[Owner].pc = "join") ~> (th[Owner].pc = "destroyed")
  /\ [](th[Owner].pc \in {"join", "destroyed"} => done_)
  /\ [](th[Owner].pc = "destroyed" => \A t \in Workers : th[t].pc = "exited")
  /\ [](\A t \in Workers :
          /\ th[t].pc \notin BlockingLabels
          /\ t \notin cv_
          /\ t \notin sq_cv_)
  /\ [][\A t \in Workers :
          (th[t].pc = "Worker_loop" /\ done_ /\ th'[t] # th[t]) =>
            th'[t].pc = "exited"]_vars

\* The destructor of a pool that never got a task has returned: its queues
\* were empty and its workers idle when done_ was set.
C12_Witness ==
  /\ th[Owner].pc = "destroyed"
  /\ ntask = 0
  /\ \A t \in Workers : th[t].pc = "exited"

\* C13: the worker's state machine.  A worker is out of its loop exactly
\* when its last loop test read done_ as true, and from then on it takes no
\* step at all, so it starts no task; the flag is never reset; and a worker
\* invokes at most one task after the flag has been set, namely in the
\* RunPendingTask it had entered on reading the flag as false.
C13_WorkerStates ==
  /\ [](\A t \in Workers :
          /\ th[t].rd <=> th[t].pc = "exited"
          /\ th[t].rd => done_
          /\ th[t].late <= 1)
  /\ [][\A t \in Workers :
          /\ th[t].rd => th'[t] = th[t]
          /\ th'[t].late > th[t].late =>
               /\ done_
               /\ ~th[t].rd
               /\ th[t].pc = "task"]_vars
  /\ [][done_ => done_']_vars

\* A worker has invoked a task after the destructor set the flag, has
\* finished it and has left its loop.
C13_Witness ==
  \E t \in Workers : th[t].late = 1 /\ th[t].pc = "exited"

\* Task k was still in a queue when the pool was destroyed.
Abandoned(k) == th[Owner].pc = "destroyed" /\ k <= ntask /\ runs[k] = 0

\* C14: abandonment on destruction.  A task that was still queued when the
\* pool was destroyed has not been invoked and its future is still not
\* ready: it holds neither a value nor an error.
C14_Abandonment ==
  \A k \in TaskIds : Abandoned(k) => future[k] = "pending"

\* The part of C14 the code keeps: an abandoned task is never invoked, and
\* its future is made ready with broken_promise, never with a value.
C14_NeverInvoked ==
  \A k \in TaskIds : Abandoned(k) => future[k] = "broken"

\* C15: a failing callable is contained.  The step in which a task's future
\* receives an exception is the end of that task on the worker that invoked
\* it: the worker is back at its loop test with an empty frame, no other
\* thread, no other future, no queue and no flag changes; a future holds an
\* exception only if its task was invoked once; and no end of a task takes
\* the worker out of its loop.
C15_FailureContained ==
  /\ [][\A k \in TaskIds :
          (future[k] = "pending" /\ future'[k] = "error") =>
            /\ \E t \in Workers :
                 /\ th[t].pc = "Task_body"
                 /\ th[t].value = k
                 /\ th'[t].pc = "Worker_loop"
                 /\ th'[t].value = NoValue
                 /\ \A u \in Threads \ {t} : th'[u] = th[u]
            /\ \A j \in TaskIds \ {k} : future'[j] = future[j]
            /\ UNCHANGED <<lqVars, wsVars, done_, runs, ntask>>]_vars
  /\ [][\A t \in Workers :
          th[t].pc = "Task_body" => th'[t].pc # "exited"]_vars
  /\ [](\A k \in TaskIds : future[k] = "error" => runs[k] = 1)

\* One worker alone has run task 1, which failed, and afterwards task 2,
\* which returned a value; the other worker has not started yet.
C15_Witness ==
  /\ th[WorkerThread[2]].pc = "Worker"
  /\ Len(popped) >= 2 /\ popped[1] = 1 /\ popped[2] = 2
  /\ future[1] = "error"
  /\ future[2] = "ready"

\* Thread a is about to lock the mutex of deque d.
WantsDeque(a, d) ==
  /\ th[a].pc \in {"WS_Push", "WS_TryPop", "WS_TrySteal", "WS_Empty"}
  /\ th[a].dq = d

\* Thread a waits for a mutex that thread b holds.
WaitsFor(a, b) ==
  \/ BlockedBy(a, b)
  \/ \E d \in DequeIds : WantsDeque(a, d) /\ mu_[d] = b

\* The threads of the pool.
PoolThreads == Workers \cup {Owner}

Waiting(a) == \E b \in PoolThreads : WaitsFor(a, b)

\* C16: lock discipline of the pool.  No thread holds mutexes of two queues
\* at once; in the LockedQueue a thread holds both mutexes only inside
\* GetTail, where tail_mu_ was taken with head_mu_ held, and a holder of
\* tail_mu_ never requests head_mu_; no thread waits for a mutex it holds
\* itself; the waits-for relation has no cycle; and every waiting thread
\* waits for a thread that can step, or for one that waits for a thread
\* that can step.
C16_LockDiscipline ==
  /\ \A t \in PoolThreads :
       /\ (head_mu_ = t \/ tail_mu_ = t) => \A d \in DequeIds : mu_[d] # t
       /\ \A d, e \in DequeIds : (mu_[d] = t /\ mu_[e] = t) => d = e
       /\ (head_mu_ = t /\ tail_mu_ = t) => th[t].pc = "GetTail_ret"
       /\ tail_mu_ = t => ~WantsHead(t)
       /\ ~WaitsFor(t, t)
  /\ \A t, u \in PoolThreads : ~(WaitsFor(t, u) /\ WaitsFor(u, t))
  /\ \A t, u, v \in PoolThreads :
       ~(WaitsFor(t, u) /\ WaitsFor(u, v) /\ WaitsFor(v, t))
  /\ \A t, u \in PoolThreads :
       WaitsFor(t, u) =>
         \/ ~Waiting(u)
         \/ \E v \in PoolThreads : WaitsFor(u, v) /\ ~Waiting(v)

\* The longest chain of waits: a worker waits for head_mu_, whose holder
\* waits inside GetTail for tail_mu_, which the owner holds in a Push.
C16_Witness ==
  \E t, u \in Workers :
    /\ WaitsFor(u, t)
    /\ WaitsFor(t, Owner)
    /\ head_mu_ = t
    /\ tail_mu_ = Owner

\* The values pushed and not yet popped, oldest first (the queue is FIFO).
Logical == SubSeq(pushed, Len(popped) + 1, Len(pushed))

\* The structure of the LockedQueue: at least the dummy node, head_ not
\* null, tail_ the last node owned through head_, head_ = tail_ exactly when
\* the logical queue is empty, one node more than queued values, and the
\* nodes before tail_ carry the queued values.
LQStructure ==
  /\ head_ # NullNode
  /\ Len(LQNodes) >= 1
  /\ LQNodes[Len(LQNodes)] = tail_
  /\ next_[tail_] = NullNode
  /\ (head_ = tail_) <=> (Logical = <<>>)
  /\ Len(LQNodes) = Len(Logical) + 1
  /\ LQContents = Logical

\* A Push is inside its critical section.
PushHoldsTail ==
  \E t \in Threads : tail_mu_ = t /\ th[t].pc \in {"Push_link", "Push_tail"}

\* C17 as stated: the structure holds between operations and at every point
\* where head_mu_ is free.
C17_WhenHeadFree ==
  (obj = "LockedQueue" /\ head_mu_ = NoThread) => LQStructure

\* C17 as amended: the structure holds at every point where head_mu_ is free
\* and no Push holds tail_mu_.
C17_Structure ==
  (obj = "LockedQueue" /\ head_mu_ = NoThread /\ ~PushHoldsTail)
    => LQStructure

\* With both mutexes free the queue holds two values after one was popped.
C17_Witness ==
  /\ obj = "LockedQueue"
  /\ head_mu_ = NoThread
  /\ tail_mu_ = NoThread
  /\ Len(popped) >= 1
  /\ Len(Logical) >= 2
  /\ LQStructure

\* ------------------------------------------------------- several waiters
IsShared == obj = "SimpleLockedQueue"

\* The number of WaitAndPop calls made so far, and the producers are done.
PopCalls == th["c1"].cnt + th["c2"].cnt
AllPushed ==
  \A p \in Producers : th[p].pc = "client" /\ th[p].cnt = MaxPush
AllReturned == \A c \in Consumers : th[c].pc = "client"

\* Thread c has just been handed x by the pop it called.
Delivered(c, x) ==
  /\ th'[c].pc = "client"
  /\ ~th'[c].exc
  /\ IF IsByValue(th[c].op) THEN th'[c].value = x ELSE th'[c].res = x

\* C18: failure-safe hand-off of the shared_ptr-storing single-lock queue.
\* A waiter that holds mu_ and finds the queue non-empty removes exactly the
\* front item and returns it in the same step, without raising; whatever
\* leaves the queue is delivered to a caller, so pushed = popped followed by
\* the queue; no waiter stays parked forever on a non-empty queue; and once
\* the producers are done and at least as many values were pushed as pops
\* were called, every waiter returns.
C18_HandOff ==
  /\ [](IsShared => pushed = popped \o queue_)
  /\ [](IsShared => \A c \in Consumers : ~th[c].exc)
  /\ [][IsShared =>
          /\ Len(queue_') < Len(queue_) =>
               /\ queue_' = Tail(queue_)
               /\ \E c \in Consumers : Delivered(c, Head(queue_))
          /\ \A c \in Consumers :
               (th[c].pc = "SQ_WaitAndPop_pred" /\ queue_ # <<>>
                  /\ th'[c] # th[c]) =>
                 /\ queue_' = Tail(queue_)
                 /\ Delivered(c, Head(queue_))]_vars
  /\ \A c \in Consumers :
       (IsShared /\ queue_ # <<>> /\ c \in sq_cv_)
         ~> ~(queue_ # <<>> /\ c \in sq_cv_)
  /\ (IsShared /\ AllPushed /\ PopCalls <= Len(pushed))
       ~> (AllReturned \/ PopCalls > Len(pushed))

\* One waiter has returned with the first value; the other, woken from cv_
\* after the second Push, is about to take the second value.
C18_Witness ==
  /\ IsShared
  /\ th["c1"].pc = "client" /\ th["c1"].cnt = 1
  /\ popped = <<pushed[1]>>
  /\ Len(pushed) = 2
  /\ th["c2"].pc = "SQ_WaitAndPop_wake"
  /\ queue_ # <<>>

\* ------------------------------------------------------------- Submit
\* Thread t is inside the Push that Submit calls.
InSubmit(t) ==
  th[t].pc \in {"Push", "Push_link", "Push_tail", "Push_notify",
                "WS_Push", "WS_Push_body"}

\* The position of a label inside Submit; any label outside comes last.
SubmitRank(l) ==
  CASE l \in {"Push", "WS_Push"} -> 1
    [] l \in {"Push_link", "WS_Push_body"} -> 2
    [] l = "Push_tail" -> 3
    [] l = "Push_notify" -> 4
    [] OTHER -> 5

\* The next step of thread t inside Submit.
SubmitStep(t) ==
  \/ Push(t) \/ Push_link(t) \/ Push_tail(t) \/ Push_notify(t)
  \/ WS_Push(t) \/ WS_Push_body(t)

\* C19: Submit never blocks.  A thread inside Submit waits for nothing but
\* tail_mu_ of the global queue (an external caller) or mu_ of its own deque
\* (a worker), and the holder of that mutex waits for nothing; whenever it
\* does not wait for that mutex its next step can be taken, whatever the
\* queues hold and whatever the workers are doing; it never parks on a
\* condition variable; and each of its steps moves it forward, so Submit
\* returns after at most four steps of its own.
C19_SubmitNeverBlocks ==
  /\ [](\A t \in PoolThreads :
          InSubmit(t) =>
            /\ t \notin cv_ /\ t \notin sq_cv_
            /\ \A u \in PoolThreads :
                 WaitsFor(t, u) =>
                   /\ ~Waiting(u)
                   /\ \/ th[t].pc = "Push" /\ tail_mu_ = u /\ t \notin Workers
                      \/ /\ th[t].pc = "WS_Push"
                         /\ t \in Workers
                         /\ th[t].dq = my_index_[t]
                         /\ mu_[th[t].dq] = u
            /\ ~Waiting(t) => ENABLED SubmitStep(t))
  /\ [][\A t \in PoolThreads :
          (InSubmit(t) /\ th'[t] # th[t]) =>
            SubmitRank(th'[t].pc) > SubmitRank(th[t].pc)]_vars

\* Both workers are busy running a task, and one of them has just returned
\* from a Submit it made from its task while the other one was running.
C19_Witness ==
  \E t, u \in Workers :
    /\ t # u
    /\ th[u].pc = "Task_body"
    /\ th[t].pc = "Task_body" /\ th[t].op = "Push"
    /\ th[t].arg = MaxTasks
    /\ submitter[MaxTasks - 1] = Owner
    /\ th[u].value = MaxTasks - 1

\* ---------------------------------------------------- value-storing queue
IsValueStoring == obj = "SimpleLockedQueue1"

\* C20: the defect of the value-storing queues.  When std::make_shared fails
\* in the shared_ptr-returning WaitAndPop, the waiter leaves with the item
\* still at the front of a non-empty queue, mu_ released, and nobody
\* notified: cv_'s set of parked waiters is unchanged and no other thread is
\* affected.  A parked waiter leaves cv_ only in the step of a Push (its
\* notify_one) or by a spurious wake-up, never because of the failed waiter.
C20_Defect ==
  /\ [][\A t \in Consumers :
          (~th[t].exc /\ th'[t].exc) =>
            /\ IsValueStoring
            /\ th[t].op = "WaitAndPop"
            /\ queue_ # <<>>
            /\ queue_' = queue_
            /\ popped' = popped
            /\ sq_cv_' = sq_cv_
            /\ sq_mu_' = NoThread
            /\ th'[t].pc = "client"
            /\ \A u \in Threads \ {t} : th'[u] = th[u]]_vars
  /\ [][\A w \in Consumers :
          (w \in sq_cv_ /\ w \notin sq_cv_') =>
            \/ Len(pushed') = Len(pushed) + 1
            \/ /\ th'[w].pc = "SQ_WaitAndPop_wake"
               /\ UNCHANGED <<queue_, sq_mu_, pushed, popped>>
               /\ \A u \in Threads \ {w} : th'[u] = th[u]]_vars
  /\ [](~IsValueStoring => \A t \in Threads : ~th[t].exc)

\* Two waiters were parked, one Push notified one of them, that one failed
\* at make_shared and left: the queue holds the value, no Push is under way
\* and the other waiter is still parked on cv_.
C20_Witness ==
  /\ IsValueStoring
  /\ Len(pushed) = 1
  /\ queue_ = pushed
  /\ \A p \in Producers : th[p].pc = "client"
  /\ sq_mu_ = NoThread
  /\ th["c1"].exc /\ th["c1"].pc = "client" /\ th["c1"].cnt = 1
  /\ th["c2"].op = "WaitAndPop"
  /\ sq_cv_ = {"c2"}

\* ------------------------------------------------- the stale tail snapshot
\* Thread t holds head_mu_, has GetTail's result in hand and found it
\* different from head_: PopHead is what it does next.
PopHeadReady(t) ==
  /\ th[t].pc \in {"TryPopHead_cmp", "WaitForData_pred"}
  /\ head_ # th[t].tl

\* The tail GetTail returned to t is no longer tail_: a Push has moved it.
StaleTail(t) == PopHeadReady(t) /\ th[t].tl # tail_

\* The nodes owned through head_ with no payload and no successor.
EmptyNodes ==
  {n \in Range(LQNodes) : data_[n] = NoValue /\ next_[n] = NullNode}

\* Whenever PopHead is about to run, the head node has a payload and a
\* successor; head_ is never null.
PopHeadSafe ==
  /\ head_ # NullNode
  /\ \A t \in Threads :
       PopHeadReady(t) => data_[head_] # NoValue /\ next_[head_] # NullNode

\* A step that moves head_ moves it to the non-null successor of the old
\* head and hands the caller the old head's non-null payload.
PopHeadStep ==
  head_' # head_ =>
    /\ data_[head_] # NoValue
    /\ head_' = next_[head_]
    /\ head_' # NullNode
    /\ popped' = Append(popped, data_[head_])
    /\ \E t \in Threads :
         /\ PopHeadReady(t)
         /\ th'[t].pc = th[t].ret
         /\ IF IsByValue(th[t].op) THEN th'[t].value = data_[head_]
                                   ELSE th'[t].res = data_[head_]

\* C21 as stated: whenever PopHead runs the head node has a payload and a
\* successor, head_ is never null, and the node tail_ points to is the only
\* node with no payload and no successor.
C21_TailOnlyEmptyNode ==
  obj = "LockedQueue" => PopHeadSafe /\ EmptyNodes = {tail_}

\* C21 as amended: whenever PopHead runs, under any interleaving with Push,
\* the head node has a payload and a successor, so head_ is never set to
\* null and every successful pop returns a payload; and whenever no Push
\* holds tail_mu_, the node tail_ points to is the only node with no payload
\* and no successor.
C21_StaleTailSafe ==
  /\ [](obj = "LockedQueue" =>
          /\ PopHeadSafe
          /\ ~PushHoldsTail => EmptyNodes = {tail_})
  /\ [][obj = "LockedQueue" => PopHeadStep]_vars

\* A popper is about to run PopHead on a tail snapshot that a Push has since
\* made stale, while another Push is inside its critical section, and an
\* earlier pop has already returned a value.
C21_Witness ==
  /\ obj = "LockedQueue"
  /\ \E t \in Consumers : StaleTail(t)
  /\ PushHoldsTail
  /\ Len(popped) >= 1

\* ------------------------------------------------ locks while a task runs
\* Worker t is about to invoke a task or is in the callable's own code.
InTaskCode(t) == th[t].pc \in {"task", "Task_body"}

\* Worker t is inside a Submit that the task it runs has called.
InTaskSubmit(t) == InSubmit(t) /\ th[t].ret = "Task_body"

\* Worker t is executing a task body.
RunsTask(t) == InTaskCode(t) \/ InTaskSubmit(t)

\* C22 as stated: a worker that is executing a task body holds none of
\* head_mu_, tail_mu_ and the deques' mu_.
C22_NoLockInTask ==
  \A t \in Workers : RunsTask(t) => HoldsNoLock(t)

\* C22 as amended: a task is invoked only after the queue operation that
\* obtained it has released its lock.  A worker that is about to invoke a
\* task or is in the task's own code holds no mutex and no thread waits for
\* it; inside a Submit that the task calls it holds at most the one mutex of
\* the queue it pushes to, taken by that Push and held only inside it.
C22_TaskOutsideLocks ==
  \A t \in Workers :
    /\ InTaskCode(t) =>
         /\ HoldsNoLock(t)
         /\ th[t].src \in {"local", "global", "steal"}
         /\ \A u \in PoolThreads : ~WaitsFor(u, t)
    /\ InTaskSubmit(t) =>
         /\ head_mu_ # t /\ sq_mu_ # t
         /\ tail_mu_ = t => th[t].pc \in {"Push_link", "Push_tail"}
         /\ \A d \in DequeIds :
              mu_[d] = t => th[t].pc = "WS_Push_body" /\ d = th[t].dq
         /\ th[t].pc \in {"Push", "WS_Push", "Push_notify"}
              => HoldsNoLock(t)

\* A worker runs a task it stole, holding no mutex, while the other worker
\* is inside a queue operation on the first worker's deque, and a task has
\* already called Submit.
C22_Witness ==
  \E t, u \in Workers :
    /\ t # u
    /\ th[t].pc = "Task_body"
    /\ th[t].src = "steal"
    /\ HoldsNoLock(t)
    /\ mu_[my_index_[t]] = u
    /\ \E k \in 1..ntask : submitter[k] \in Workers
====
